---- MODULE Spec2Model ----
(***************************************************************************)
(* Model of the multi-agent collaboration scheduler of agenticSeek         *)
(* (sources/agents/collaborative_agent.py): SharedContext, AgentTask,      *)
(* TaskResult and the four execution modes of CollaborativeAgent.          *)
(*                                                                         *)
(* Concurrency is asyncio's: one coroutine runs at a time and control      *)
(* changes hands only at an await that really suspends.  The body of each  *)
(* SharedContext operation holds the lock across no await, so the lock is  *)
(* never contended and a SharedContext call is one atomic step.  The       *)
(* suspension points of a run are the semaphore of execute_parallel and    *)
(* the worker call agent.process.                                          *)
(*                                                                         *)
(* Spec is one run of a fresh scheduler.  The other specifications take    *)
(* one part further: SharedContextSpec and LiveSpec take the lock apart,   *)
(* RunsSpec lets runs follow one another on one scheduler, OverlapSpec     *)
(* lets calls of execute_parallel overlap, SortSpec, TextSpec, RouterSpec  *)
(* and CollabSpec call the dependency sort and the router on their own.    *)
(***************************************************************************)
EXTENDS Integers, Sequences, FiniteSets, TLC

(* ------------------------------ bounds --------------------------------- *)
MaxTasks == 2          \* longest task list / candidate list submitted
MaxParallel == 2       \* largest max_parallel_tasks a scheduler is built with

(* -------------------------- program constants -------------------------- *)
DefaultTimeout == 300      \* AgentTask.timeout
DefaultMaxRetries == 2     \* AgentTask.max_retries

(* ------------------------------ domains -------------------------------- *)
\* self.agents: the capability tags that have a worker.  "files" is a tag a
\* task may name although no worker is registered under it.
agents == {"code", "web"}
AgentTypes == agents \cup {"files"}

\* wall-clock durations a worker call that returns may take (seconds):
\* within the timeout, and beyond it
Durations == {1, DefaultTimeout + 1}

\* duration of a worker call that raises; the execution_time of a failed
\* result is reported and never read by the scheduler
RaiseDurations == {1}

None == "None"

\* task_id of the i-th task of a submitted list, and of the i-th candidate
\* of a competitive run (f"competitive_{i}")
TaskId(i) == <<"task", i>>
CompetitiveId(i) == <<"competitive", i>>

\* keys written by execute_task
ResultKey(task_id) == <<"result", task_id>>
SuccessKey(task_id) == <<"success", task_id>>

(* ------------------------------ AgentTask ------------------------------ *)
AgentTask(task_id, agent_type, dependencies, retry_count) ==
    [task_id |-> task_id, agent_type |-> agent_type,
     dependencies |-> dependencies, timeout |-> DefaultTimeout,
     retry_count |-> retry_count, max_retries |-> DefaultMaxRetries]

\* the retry_count a submitted task carries: a fresh task, and a task that has
\* used up its budget
RetryCounts == {0, DefaultMaxRetries}

\* dependency lists a task of an n-task list is given: none, or one id of the
\* list, which may be its own
DependencyChoices(n) ==
    {<< >>} \cup { <<TaskId(j)>> : j \in 1..n }

\* the dependency chain of the authors' test: each task names the one before
ChainDependencies(i) == IF i = 1 THEN << >> ELSE <<TaskId(i - 1)>>

\* The task lists submitted to the scheduler have pairwise distinct ids and
\* any tags.  dependencies is read by _sort_tasks_by_dependencies only and
\* retry_count by the loop of execute_sequential only, so each mode's lists
\* vary the fields that mode reads.
SequentialLists ==
    UNION { { [i \in 1..n |->
                 AgentTask(TaskId(i), ty[i], ChainDependencies(i), rc[i])] :
                ty \in [1..n -> AgentTypes],
                rc \in [1..n -> RetryCounts] } : n \in 0..MaxTasks }

ParallelLists ==
    UNION { { [i \in 1..n |-> AgentTask(TaskId(i), ty[i], << >>, 0)] :
                ty \in [1..n -> AgentTypes] } : n \in 0..MaxTasks }

\* the tag is varied by the sequential lists, which run the same loop
PipelineLists ==
    UNION { { [i \in 1..n |-> AgentTask(TaskId(i), "code", dp[i], rc)] :
                dp \in [1..n -> DependencyChoices(n)],
                rc \in RetryCounts } : n \in 0..MaxTasks }

\* the candidate tag lists given to execute_competitive
Injective(s) == \A i, j \in DOMAIN s : s[i] = s[j] => i = j
CandidateLists ==
    UNION { { s \in [1..n -> AgentTypes] : Injective(s) } : n \in 0..MaxTasks }

(* ------------------------------ TaskResult ----------------------------- *)
TaskResult(task, success, result, execution_time, error_message) ==
    [task_id |-> task.task_id, agent_type |-> task.agent_type,
     success |-> success, result |-> result,
     execution_time |-> execution_time, error_message |-> error_message]

\* no TaskResult yet
NoResult == [task_id |-> None]

VARIABLES
    max_parallel_tasks,  \* CollaborativeAgent.max_parallel_tasks
    shared_context,      \* SharedContext.data: key -> value
    get_success,         \* per worker: Agent.get_success
    mode,                \* the execution mode of the run, "idle" before it
    pc,                  \* where the scheduler coroutine of the run stands
    submitted,           \* the task list the caller passed
    tasks,               \* the list the run iterates (sorted, for pipeline)
    cur,                 \* execute_sequential: index of the task in the loop
    attempt,             \* execute_sequential: 1 = first call, 2 = the retry
    context_data,        \* the snapshot returned by get_all()
    semaphore,           \* execute_parallel: free slots of the Semaphore
    tpc,                 \* per task: position of its execute_task coroutine
    task_result,         \* per task: value its last execute_task returned
    results,             \* the result list of the run
    returned,            \* what the run returned to its caller
    prompts,             \* per task: the context each prompt was built from
    outcome,             \* per task: what its last worker call did
    executed,            \* the execute_task calls so far, in order
    routing,             \* AgentRouter.select_agent: the inputs of the call
    selected,            \* AgentRouter.select_agent: what the call returned
    invoked,             \* AgentRouter.select_agent: the collaborators it called
    router_pc,           \* where execute_collaborative_task stands
    request,             \* execute_collaborative_task: the mode asked for
    reply,               \* execute_collaborative_task: what it returned
    lock,                \* SharedContext.lock: the coroutine that holds it
    client,              \* per coroutine using SharedContext: its operation
    serial,              \* the map the operations leave when applied one at
                         \* a time, in the order they took the lock
    completed,           \* number of runs of the scheduler that have returned
    earlier,             \* SharedContext.data when the last of them returned
    batch                \* per execute_parallel call of a scheduler whose
                         \* calls overlap: its semaphore and its coroutines

vars == <<max_parallel_tasks, shared_context, get_success, mode, pc, submitted,
          tasks, cur, attempt, context_data, semaphore, tpc, task_result,
          results, returned, prompts, outcome, executed, routing, selected,
          invoked, router_pc, request, reply, lock, client, serial,
          completed, earlier, batch>>

schedVars == <<mode, pc, submitted, cur, attempt, context_data, results, returned>>

\* the state of a scheduler and its workers
runVars == <<max_parallel_tasks, shared_context, get_success, mode, pc,
             submitted, tasks, cur, attempt, context_data, semaphore, tpc,
             task_result, results, returned, prompts, outcome, executed>>

\* the state of a select_agent call, of an execute_collaborative_task call,
\* and of the coroutines that use a SharedContext on their own
routerVars == <<routing, selected, invoked>>
collabVars == <<router_pc, request, reply>>
lockVars == <<lock, client, serial>>

\* what a scheduler keeps from one run to the next, and the calls of
\* execute_parallel that overlap on one scheduler
lifeVars == <<completed, earlier>>
overlapVars == <<batch>>

(* ---------------------------- SharedContext ---------------------------- *)
EmptyContext == [k \in {} |-> None]

\* SharedContext.set
set(data, key, value) == (key :> value) @@ data

\* SharedContext.get_all: a copy of the map
get_all(data) == data

\* SharedContext.get
get(data, key, default) == IF key \in DOMAIN data THEN data[key] ELSE default

\* SharedContext.update
update(data, updates) == updates @@ data

\* the keys and values of the authors' test of SharedContext
Keys == {"key1", "key2"}
Values == {"value1", "value2"}
\* update({"key1": ..., "key2": ...})
UpdateMaps == [Keys -> Values]

\* the calls a coroutine makes: set(key, value), get(key, default),
\* update(updates) and get_all()
Call(name, key, value, updates) ==
    [name |-> name, key |-> key, value |-> value, updates |-> updates]
Calls_set == { Call("set", k, v, EmptyContext) : k \in Keys, v \in Values }
Calls_get == { Call("get", k, None, EmptyContext) : k \in Keys }
Calls_update == { Call("update", None, None, u) : u \in UpdateMaps }
Calls_get_all == { Call("get_all", None, None, EmptyContext) }
SharedContextCalls == Calls_set \cup Calls_get \cup Calls_update \cup Calls_get_all

\* an agent of the router's list, and the two values select_agent returns
\* that are no agent of the list: None, and the wrapper that runs
\* execute_collaborative_task
Agent(type, role) == [type |-> type, role |-> role]
NoAgent == Agent(None, None)
CollaborativeTaskAgent == Agent("collaborative_agent", "collaborative")

\* how a call ended: with a value, or with an exception
Return(value) == [value |-> value, exception |-> None]
Raise(exception) == [value |-> NoAgent, exception |-> exception]

\* no router call has been made
NoCall == [op |-> "none"]

\* the coroutines are numbered from 1; the lock holds the number of its
\* owner, and this when it is free
Unlocked == 0

\* a coroutine that is in no SharedContext call
IdleClient ==
    [pc |-> "idle", call |-> None, todo |-> {}, result |-> None,
     expect |-> None]

(* ------------------------------- Init ---------------------------------- *)
Init ==
    /\ max_parallel_tasks \in {1, MaxParallel}
    /\ shared_context = EmptyContext
    /\ get_success = [a \in agents |-> TRUE]
    /\ mode = "idle"
    /\ pc = "idle"
    /\ submitted = << >>
    /\ tasks = << >>
    /\ cur = 0
    /\ attempt = 0
    /\ context_data = EmptyContext
    /\ semaphore = 0
    /\ tpc = << >>
    /\ task_result = << >>
    /\ results = << >>
    /\ returned = None
    /\ prompts = << >>
    /\ outcome = << >>
    /\ executed = << >>
    /\ routing = NoCall
    /\ selected = Return(NoAgent)
    /\ invoked = {}
    /\ router_pc = "idle"
    /\ request = None
    /\ reply = None
    /\ lock = Unlocked
    /\ client = [c \in 1..max_parallel_tasks |-> IdleClient]
    /\ serial = EmptyContext
    /\ completed = 0
    /\ earlier = EmptyContext
    /\ batch = << >>

(* ------------------- _sort_tasks_by_dependencies ----------------------- *)
\* task_dict = {task.task_id: task for task in tasks}: the last task of an id
HasTask(ts, task_id) == \E i \in 1..Len(ts) : ts[i].task_id = task_id
task_dict(ts, task_id) ==
    ts[CHOOSE i \in 1..Len(ts) :
         /\ ts[i].task_id = task_id
         /\ \A j \in (i + 1)..Len(ts) : ts[j].task_id # task_id]

\* visit(task_id): st = [visited, result] are the closure's two variables
RECURSIVE visit(_, _, _), visit_dependencies(_, _, _)
\* a sort that emits a task before the tasks it depends on
visit_preorder(ts, task_id, st) ==
    IF task_id \in st.visited THEN st
    ELSE LET marked == [st EXCEPT !.visited = @ \cup {task_id}]
         IN  IF HasTask(ts, task_id)
             THEN LET task == task_dict(ts, task_id)
                  IN  visit_dependencies(ts, task.dependencies,
                          [marked EXCEPT !.result = Append(@, task)])
             ELSE marked

visit(ts, task_id, st) ==
    IF task_id \in st.visited THEN st
    ELSE LET marked == [st EXCEPT !.visited = @ \cup {task_id}]
         IN  IF HasTask(ts, task_id)
             THEN LET task == task_dict(ts, task_id)
                      after == visit_dependencies(ts, task.dependencies, marked)
                  IN  [after EXCEPT !.result = Append(@, task)]
             ELSE marked

\* for dep_id in task.dependencies: visit(dep_id)
visit_dependencies(ts, deps, st) ==
    IF deps = << >> THEN st
    ELSE visit_dependencies(ts, Tail(deps), visit(ts, Head(deps), st))

\* for task in tasks: visit(task.task_id)
RECURSIVE visit_all(_, _, _)
\* a sort that visits the first task of the list only
visit_first(ts, i, st) ==
    IF i > Len(ts) THEN st ELSE visit(ts, ts[i].task_id, st)

visit_all(ts, i, st) ==
    IF i > Len(ts) THEN st
    ELSE visit_all(ts, i + 1, visit(ts, ts[i].task_id, st))

sort_tasks_by_dependencies(ts) ==
    visit_all(ts, 1, [visited |-> {}, result |-> << >>]).result

(* ----------------------------- execute_task ---------------------------- *)
\* number of execute_task calls made so far for the task at position i
Calls(i) == Cardinality({k \in 1..Len(executed) : executed[k] = i})

\* the text the worker answers with: one fresh value per worker call
Answer(i) == <<"answer", tasks[i].task_id, Calls(i), completed>>

InParallel == mode \in {"parallel", "competitive"}

\* lines 111-125: entry of execute_task(task, ctx) up to the worker call.  A
\* tag without worker raises ValueError inside the try, which the handler
\* turns into a failed TaskResult at once.
execute_task(i, ctx) ==
    /\ executed' = Append(executed, i)
    /\ IF tasks[i].agent_type \notin agents
       THEN /\ task_result' = [task_result EXCEPT ![i] =
                   TaskResult(tasks[i], FALSE, "", 0, "not available")]
            /\ tpc' = [tpc EXCEPT ![i] = "done"]
            /\ outcome' = [outcome EXCEPT ![i] = "none"]
            /\ UNCHANGED prompts
       ELSE /\ prompts' = [prompts EXCEPT ![i] = Append(@, ctx)]
            /\ tpc' = [tpc EXCEPT ![i] = "running"]
            /\ outcome' = [outcome EXCEPT ![i] = "pending"]
            /\ UNCHANGED task_result

\* a slot that is never given back
release_never == semaphore

\* the slot execute_with_semaphore gives back when execute_task returns
release == IF InParallel THEN semaphore + 1 ELSE semaphore

(* ----------------------------- the worker ------------------------------ *)
\* agent.process decides its success flag (execute_modules) and then awaits
\* again before it returns
process_set_success(i, b) ==
    /\ tpc[i] = "running"
    /\ get_success' = [get_success EXCEPT ![tasks[i].agent_type] = b]
    /\ outcome' = [outcome EXCEPT ![i] = IF b THEN "ok" ELSE "fail"]
    /\ tpc' = [tpc EXCEPT ![i] = "flagged"]
    /\ UNCHANGED <<routerVars, collabVars, lockVars, lifeVars,
                 overlapVars>>
    /\ UNCHANGED <<max_parallel_tasks, shared_context, schedVars, tasks,
                   semaphore, task_result, prompts, executed>>

\* lines 125-146: agent.process returns after d seconds
process_return(i, d) ==
    /\ tpc[i] = "flagged"
    /\ LET task == tasks[i]
           success == get_success[task.agent_type]
       IN  /\ task_result' = [task_result EXCEPT ![i] =
                  TaskResult(task, success, Answer(i), d, None)]
           /\ shared_context' =
                  set(set(shared_context, ResultKey(task.task_id), Answer(i)),
                      SuccessKey(task.task_id), success)
    /\ tpc' = [tpc EXCEPT ![i] = "done"]
    /\ semaphore' = release
    /\ UNCHANGED <<routerVars, collabVars, lockVars, lifeVars,
                 overlapVars>>
    /\ UNCHANGED <<max_parallel_tasks, get_success, schedVars, tasks, prompts,
                   outcome, executed>>

\* lines 148-163: agent.process raises after d seconds
process_raise(i, d) ==
    /\ tpc[i] \in {"running", "flagged"}
    /\ tpc' = [tpc EXCEPT ![i] = "done"]
    /\ outcome' = [outcome EXCEPT ![i] = "raise"]
    /\ task_result' = [task_result EXCEPT ![i] =
           TaskResult(tasks[i], FALSE, "", d, "raised")]
    /\ semaphore' = release
    /\ UNCHANGED <<routerVars, collabVars, lockVars, lifeVars,
                 overlapVars>>
    /\ UNCHANGED <<max_parallel_tasks, shared_context, get_success, schedVars,
                   tasks, prompts, executed>>

(* -------------------------- execute_sequential ------------------------- *)
\* the per-task bookkeeping of a run over the list ts
StartRun(ts, first) ==
    /\ tasks' = ts
    /\ tpc' = [i \in 1..Len(ts) |-> first]
    /\ task_result' = [i \in 1..Len(ts) |-> NoResult]
    /\ prompts' = [i \in 1..Len(ts) |-> << >>]
    /\ outcome' = [i \in 1..Len(ts) |-> "none"]
    /\ results' = << >>
    /\ executed' = << >>

execute_sequential(ts) ==
    /\ pc = "idle"
    /\ mode' = "sequential"
    /\ pc' = "loop"
    /\ submitted' = ts
    /\ StartRun(ts, "new")
    /\ cur' = 0
    /\ UNCHANGED <<routerVars, lockVars, lifeVars,
                 overlapVars>>
    /\ UNCHANGED <<max_parallel_tasks, shared_context, get_success, attempt,
                   context_data, semaphore, returned>>

\* for task in tasks: the loop goes on whatever the earlier results are
has_next_fail_fast ==
    /\ cur < Len(tasks)
    /\ IF results = << >> THEN TRUE ELSE results[Len(results)].success
has_next == cur < Len(tasks)

\* lines 223-228: next task of the loop: snapshot, then execute_task
sequential_next ==
    /\ pc = "loop"
    /\ has_next
    /\ cur' = cur + 1
    /\ attempt' = 1
    /\ context_data' = get_all(shared_context)
    /\ execute_task(cur + 1, context_data')
    /\ pc' = "await"
    /\ UNCHANGED <<routerVars, collabVars, lockVars, lifeVars,
                 overlapVars>>
    /\ UNCHANGED <<max_parallel_tasks, shared_context, get_success, mode,
                   submitted, tasks, semaphore, results, returned>>

\* a retry granted although the budget is used up
ShouldRetryOffByOne(i) ==
    /\ ~task_result[i].success
    /\ tasks[i].retry_count <= tasks[i].max_retries

ShouldRetry(i) ==
    /\ ~task_result[i].success
    /\ tasks[i].retry_count < tasks[i].max_retries

\* lines 228-232: the first call returned and is not retried
sequential_result ==
    /\ pc = "await" /\ attempt = 1 /\ tpc[cur] = "done"
    /\ ~ShouldRetry(cur)
    /\ results' = Append(results, task_result[cur])
    /\ pc' = "loop"
    /\ UNCHANGED <<routerVars, collabVars, lockVars, lifeVars,
                 overlapVars>>
    /\ UNCHANGED <<max_parallel_tasks, shared_context, get_success, mode,
                   submitted, tasks, cur, attempt, context_data, semaphore,
                   tpc, task_result, returned, prompts, outcome, executed>>

\* the context_data handed to the retry: the dict taken before the first
\* call
retry_context_fresh(snapshot, data) == get_all(data)
retry_context(snapshot, data) == snapshot

\* lines 228-235: the first call failed with budget left: retry at once,
\* with the context_data of the first call
sequential_retry ==
    /\ pc = "await" /\ attempt = 1 /\ tpc[cur] = "done"
    /\ ShouldRetry(cur)
    /\ results' = Append(results, task_result[cur])
    /\ tasks' = [tasks EXCEPT ![cur].retry_count = @ + 1]
    /\ attempt' = 2
    /\ execute_task(cur, retry_context(context_data, shared_context))
    /\ UNCHANGED <<routerVars, collabVars, lockVars, lifeVars,
                 overlapVars>>
    /\ UNCHANGED <<max_parallel_tasks, shared_context, get_success, mode, pc,
                   submitted, cur, context_data, semaphore, returned>>

\* results[-1] = retry_result
replace_last_append(rs, r) == Append(rs, r)
replace_last(rs, r) == [rs EXCEPT ![Len(rs)] = r]

\* line 236: the retry returned
sequential_retry_result ==
    /\ pc = "await" /\ attempt = 2 /\ tpc[cur] = "done"
    /\ results' = replace_last(results, task_result[cur])
    /\ pc' = "loop"
    /\ UNCHANGED <<routerVars, collabVars, lockVars, lifeVars,
                 overlapVars>>
    /\ UNCHANGED <<max_parallel_tasks, shared_context, get_success, mode,
                   submitted, tasks, cur, attempt, context_data, semaphore,
                   tpc, task_result, returned, prompts, outcome, executed>>

\* line 238
sequential_return ==
    /\ pc = "loop"
    /\ ~has_next
    /\ returned' = results
    /\ pc' = "returned"
    /\ UNCHANGED <<routerVars, collabVars, lockVars, lifeVars,
                 overlapVars>>
    /\ UNCHANGED <<max_parallel_tasks, shared_context, get_success, mode,
                   submitted, tasks, cur, attempt, context_data, semaphore,
                   tpc, task_result, results, prompts, outcome, executed>>

(* --------------------------- execute_pipeline -------------------------- *)
\* lines 240-248: sort, then the sequential procedure on the sorted list
execute_pipeline(ts) ==
    /\ pc = "idle"
    /\ mode' = "pipeline"
    /\ pc' = "loop"
    /\ submitted' = ts
    /\ StartRun(sort_tasks_by_dependencies(ts), "new")
    /\ cur' = 0
    /\ UNCHANGED <<routerVars, lockVars, lifeVars,
                 overlapVars>>
    /\ UNCHANGED <<max_parallel_tasks, shared_context, get_success, attempt,
                   context_data, semaphore, returned>>

(* --------------------------- execute_parallel -------------------------- *)
\* lines 185-198: one snapshot, a fresh semaphore, one coroutine per task
StartParallel(ts) ==
    /\ submitted' = ts
    /\ StartRun(ts, "gate")
    /\ context_data' = get_all(shared_context)
    /\ semaphore' = max_parallel_tasks
    /\ pc' = "gather"
    /\ UNCHANGED <<routerVars, lockVars, lifeVars,
                 overlapVars>>
    /\ UNCHANGED <<max_parallel_tasks, shared_context, get_success, cur,
                   attempt, returned>>

execute_parallel(ts) ==
    /\ pc = "idle"
    /\ mode' = "parallel"
    /\ StartParallel(ts)

\* the context_data a coroutine of the batch hands to execute_task: the dict
\* get_all returned, a copy that later writes to data do not reach
batch_context_live(snapshot, data) == data
batch_context(snapshot, data) == snapshot

\* async with semaphore: a slot is free
AcquireUnbounded(i) == TRUE
Acquire(i) == semaphore > 0

\* lines 190-192: a waiting coroutine takes a slot and enters execute_task;
\* when execute_task fails before the worker call the slot is given back in
\* the same step
execute_with_semaphore(i) ==
    /\ InParallel /\ pc = "gather"
    /\ tpc[i] = "gate"
    /\ Acquire(i)
    /\ execute_task(i, batch_context(context_data, shared_context))
    /\ semaphore' = IF tasks[i].agent_type \in agents
                    THEN semaphore - 1 ELSE semaphore
    /\ UNCHANGED <<routerVars, collabVars, lockVars, lifeVars,
                 overlapVars>>
    /\ UNCHANGED <<max_parallel_tasks, shared_context, get_success, schedVars,
                   tasks>>

\* lines 195-216: gather returns when every coroutine has; execute_task
\* returns a TaskResult on every path, so no entry is an exception
parallel_return ==
    /\ InParallel /\ pc = "gather"
    /\ \A i \in 1..Len(tasks) : tpc[i] = "done"
    /\ results' = [i \in 1..Len(tasks) |-> task_result[i]]
    /\ IF mode = "parallel"
       THEN /\ returned' = results'
            /\ pc' = "returned"
       ELSE /\ pc' = "select"
            /\ UNCHANGED returned
    /\ UNCHANGED <<routerVars, collabVars, lockVars, lifeVars,
                 overlapVars>>
    /\ UNCHANGED <<max_parallel_tasks, shared_context, get_success, mode,
                   submitted, tasks, cur, attempt, context_data, semaphore,
                   tpc, task_result, prompts, outcome, executed>>

(* -------------------------- execute_competitive ------------------------ *)
\* lines 279-290: one task per candidate tag, run by execute_parallel
CompetitiveTasks(agent_types) ==
    [i \in 1..Len(agent_types) |->
        AgentTask(CompetitiveId(i - 1), agent_types[i], << >>, 0)]

execute_competitive(agent_types) ==
    /\ pc = "idle"
    /\ mode' = "competitive"
    /\ StartParallel(CompetitiveTasks(agent_types))

\* min(successful_results, key=execution_time): the first of the minima
successful_results(rs) == SelectSeq(rs, LAMBDA r : r.success)

\* the first successful result instead of the fastest
best_result_first(rs) == rs[1]

best_result(rs) ==
    rs[CHOOSE k \in 1..Len(rs) :
         /\ \A j \in 1..Len(rs) : rs[k].execution_time <= rs[j].execution_time
         /\ \A j \in 1..(k - 1) : rs[j].execution_time > rs[k].execution_time]

\* lines 293-301
competitive_select ==
    /\ pc = "select"
    /\ returned' = IF successful_results(results) # << >>
                   THEN best_result(successful_results(results))
                   ELSE IF results # << >> THEN results[1] ELSE None
    /\ pc' = "returned"
    /\ UNCHANGED <<routerVars, collabVars, lockVars, lifeVars,
                 overlapVars>>
    /\ UNCHANGED <<max_parallel_tasks, shared_context, get_success, mode,
                   submitted, tasks, cur, attempt, context_data, semaphore,
                   tpc, task_result, results, prompts, outcome, executed>>

(* ------------------------------- Next ---------------------------------- *)
Next ==
    \/ /\ pc = "idle"
       /\ \E ts \in SequentialLists : execute_sequential(ts)
       /\ UNCHANGED collabVars
    \/ /\ pc = "idle"
       /\ \E ts \in PipelineLists : execute_pipeline(ts)
       /\ UNCHANGED collabVars
    \/ /\ pc = "idle"
       /\ \E ts \in ParallelLists : execute_parallel(ts)
       /\ UNCHANGED collabVars
    \/ /\ pc = "idle"
       /\ \E tys \in CandidateLists : execute_competitive(tys)
       /\ UNCHANGED collabVars
    \/ sequential_next
    \/ sequential_result
    \/ sequential_retry
    \/ sequential_retry_result
    \/ sequential_return
    \/ \E i \in 1..Len(tasks) : execute_with_semaphore(i)
    \/ parallel_return
    \/ competitive_select
    \/ \E i \in 1..Len(tasks), b \in BOOLEAN : process_set_success(i, b)
    \/ \E i \in 1..Len(tasks), d \in Durations : process_return(i, d)
    \/ \E i \in 1..Len(tasks), d \in RaiseDurations : process_raise(i, d)

Spec == Init /\ [][Next]_vars

(* ================== SharedContext under its lock ======================= *)
(* Coroutines that call set, get, update and get_all on one SharedContext.  *)
(* Each call is 'async with self.lock: body'.  The model lets a coroutine   *)
(* be suspended between any two steps of a call, also between the keys     *)
(* update writes, which is more than asyncio does: it is the lock that     *)
(* keeps the calls apart.                                                  *)

\* asyncio.Lock.acquire: the lock is not held
lock_free_always(c) == TRUE
lock_free(c) == lock = Unlocked

\* what the call leaves in the map when nothing else runs during it
applied(data, call) ==
    IF call.name = "set" THEN set(data, call.key, call.value)
    ELSE IF call.name = "update" THEN update(data, call.updates)
    ELSE data

\* what the call returns when nothing else runs during it
answer(data, call) ==
    IF call.name = "get" THEN get(data, call.key, call.value)
    ELSE IF call.name = "get_all" THEN get_all(data)
    ELSE None

\* a coroutine calls an operation and reaches 'async with self.lock'
context_call(c, call) ==
    /\ client[c].pc = "idle"
    /\ client' = [client EXCEPT ![c] =
           [pc |-> "acquire", call |-> call, todo |-> {}, result |-> None,
            expect |-> None]]
    /\ UNCHANGED <<runVars, routerVars, collabVars, lock, serial, lifeVars,
                   overlapVars>>

\* __aenter__: the coroutine takes the lock
context_acquire(c) ==
    /\ client[c].pc = "acquire"
    /\ lock_free(c)
    /\ lock' = c
    /\ serial' = applied(serial, client[c].call)
    /\ client' = [client EXCEPT ![c].pc = "body",
                                ![c].todo = DOMAIN client[c].call.updates,
                                ![c].expect = answer(serial, client[c].call)]
    /\ UNCHANGED <<runVars, routerVars, collabVars, lifeVars, overlapVars>>

\* the body of set, get and get_all, and one key of the body of update
context_body(c) ==
    /\ client[c].pc = "body"
    /\ LET call == client[c].call
       IN  IF call.name = "update" /\ client[c].todo # {}
           THEN \E k \in client[c].todo :
                  /\ shared_context' = set(shared_context, k, call.updates[k])
                  /\ client' = [client EXCEPT ![c].todo = @ \ {k}]
           ELSE /\ shared_context' = IF call.name = "set"
                                     THEN set(shared_context, call.key, call.value)
                                     ELSE shared_context
                /\ client' = [client EXCEPT
                       ![c].pc = "release",
                       ![c].result = answer(shared_context, call)]
    /\ UNCHANGED <<max_parallel_tasks, get_success, schedVars, tasks,
                   semaphore, tpc, task_result, prompts, outcome, executed,
                   routerVars, collabVars, lock, serial, lifeVars,
                   overlapVars>>

\* __aexit__: the lock is released and the call returns
context_release(c) ==
    /\ client[c].pc = "release"
    /\ lock' = Unlocked
    /\ client' = [client EXCEPT ![c] = IdleClient]
    /\ UNCHANGED <<runVars, routerVars, collabVars, serial, lifeVars,
                   overlapVars>>

Coroutines == DOMAIN client

SharedContextNext ==
    \/ \E c \in Coroutines, call \in SharedContextCalls : context_call(c, call)
    \/ \E c \in Coroutines : context_acquire(c)
    \/ \E c \in Coroutines : context_body(c)
    \/ \E c \in Coroutines : context_release(c)

SharedContextSpec == Init /\ [][SharedContextNext]_vars

(* ============================ the router =============================== *)
(* sources/router.py: the task decomposer and execute_collaborative_task,  *)
(* which hands the decomposed list to the scheduler.                       *)

\* A text is the list of its clauses, the pieces text.split('.') yields; a
\* clause is the set of the phrases that occur in it, a blank clause the
\* empty set.  A text of n clauses decomposes into at most n tasks.
Phrases == {"hello", "Search", "write", "save", "and then", "only"}
Clauses == SUBSET Phrases
Texts == UNION { [1..n -> Clauses] : n \in 1..MaxTasks }

\* str.lower
lower(p) == IF p = "Search" THEN "search" ELSE p

\* the pairs <<w, p>> of a word and a lower-case phrase of which w is a
\* proper substring
Inside == {<<"then", "and then">>, <<"and", "and then">>}

\* word in text_lower
Occurs(word, clause) ==
    \E p \in clause : word = lower(p) \/ <<word, lower(p)>> \in Inside

\* detect_task_type: the first keyword list with a word in the sentence
CodeWords == {"write", "code", "script", "program", "debug", "create app"}
WebWords == {"search", "browse", "web", "find online", "look up"}
FilesWords == {"file", "folder", "directory", "save", "organize"}

\* the web keywords looked for before the code keywords
detect_task_type_web_first(clause) ==
    IF \E w \in WebWords : Occurs(w, clause) THEN "web"
    ELSE IF \E w \in CodeWords : Occurs(w, clause) THEN "code"
    ELSE IF \E w \in FilesWords : Occurs(w, clause) THEN "files"
    ELSE "talk"

detect_task_type(clause) ==
    IF \E w \in CodeWords : Occurs(w, clause) THEN "code"
    ELSE IF \E w \in WebWords : Occurs(w, clause) THEN "web"
    ELSE IF \E w \in FilesWords : Occurs(w, clause) THEN "files"
    ELSE "talk"

\* decompose_collaborative_task: one task per clause that is not blank,
\* numbered from 0
decompose_collaborative_task(text) ==
    LET sentences == SelectSeq(text, LAMBDA c : c # {})
    IN  [i \in 1..Len(sentences) |->
            AgentTask(TaskId(i - 1), detect_task_type(sentences[i]), << >>, 0)]

CollaborationMode == {"sequential", "parallel", "pipeline", "competitive"}

(* ---------------------- detect_collaborative_task ---------------------- *)
\* word in text_lower, for the text as a whole: no word of the lists holds
\* a full stop
OccursIn(word, text) == \E i \in 1..Len(text) : Occurs(word, text[i])

\* the word lists of MVPCollaborationDetector; their CJK entries occur in no
\* phrase of the model
collaboration_keywords ==
    {"and then", "then", "after", "next", "followed by",
     "and also", "also", "and", "both", "simultaneously"}
action_words ==
    {"search", "find", "write", "create", "build", "make",
     "analyze", "download", "save", "send", "read", "process"}
exclusion_words == {"only", "just", "simply", "single", "alone"}
strong_keywords == {"and then", "and also"}

action_count(text) == Cardinality({w \in action_words : OccursIn(w, text)})

\* a detector without the exclusion rule
detect_collaborative_task_no_exclusion(text) ==
    IF /\ \E w \in collaboration_keywords : OccursIn(w, text)
       /\ action_count(text) >= 2 THEN TRUE
    ELSE IF \E w \in strong_keywords : OccursIn(w, text) THEN TRUE
    ELSE action_count(text) >= 3

detect_collaborative_task(text) ==
    IF \E w \in exclusion_words : OccursIn(w, text) THEN FALSE
    ELSE IF /\ \E w \in collaboration_keywords : OccursIn(w, text)
            /\ action_count(text) >= 2 THEN TRUE
    ELSE IF \E w \in strong_keywords : OccursIn(w, text) THEN TRUE
    ELSE action_count(text) >= 3

\* list(set(task.agent_type for task in tasks)): each tag once, in an order
\* the hashing of the set decides
agent_types(ts) == { ts[i].agent_type : i \in 1..Len(ts) }
agent_type_lists(ts) ==
    { tys \in [1..Cardinality(agent_types(ts)) -> agent_types(ts)] :
        Injective(tys) }

\* lines 587-611: decompose, give up on an empty list, else start the
\* procedure of the mode
execute_collaborative_task(text, m) ==
    /\ router_pc = "idle"
    /\ request' = m
    /\ LET ts == decompose_collaborative_task(text)
       IN  IF ts = << >>
           THEN /\ reply' = None
                /\ router_pc' = "returned"
                /\ UNCHANGED <<runVars, routerVars, lockVars, lifeVars,
                 overlapVars>>
           ELSE /\ router_pc' = "await"
                /\ UNCHANGED reply
                /\ IF m = "parallel" THEN execute_parallel(ts)
                   ELSE IF m = "pipeline" THEN execute_pipeline(ts)
                   ELSE IF m = "competitive" /\ Cardinality(agent_types(ts)) > 1
                        THEN \E tys \in agent_type_lists(ts) :
                                 execute_competitive(tys)
                   ELSE execute_sequential(ts)

\* CollaborativeTaskAgent.process: the collaborative agent select_agent
\* returns runs the prompt in the default mode
process(prompt) == execute_collaborative_task(prompt, "sequential")

\* lines 607-613: the scheduler returned; a competitive result is wrapped
\* into a list
collaborative_return ==
    /\ router_pc = "await"
    /\ pc = "returned"
    /\ reply' = IF mode = "competitive" THEN <<returned>> ELSE returned
    /\ router_pc' = "returned"
    /\ UNCHANGED <<runVars, routerVars, lockVars, request, lifeVars,
                   overlapVars>>

CollabNext ==
    \/ router_pc = "idle" /\ \E text \in Texts, m \in CollaborationMode :
                                 execute_collaborative_task(text, m)
    \/ router_pc = "idle" /\ \E prompt \in Texts : process(prompt)
    \/ collaborative_return
    \/ /\ router_pc = "await"
       /\ \/ sequential_next
          \/ sequential_result
          \/ sequential_retry
          \/ sequential_retry_result
          \/ sequential_return
          \/ \E i \in 1..Len(tasks) : execute_with_semaphore(i)
          \/ parallel_return
          \/ competitive_select
          \/ \E i \in 1..Len(tasks), b \in BOOLEAN : process_set_success(i, b)
          \/ \E i \in 1..Len(tasks), d \in Durations : process_return(i, d)
          \/ \E i \in 1..Len(tasks), d \in RaiseDurations : process_raise(i, d)

CollabSpec == Init /\ [][CollabNext]_vars

(* ============================ select_agent ============================= *)
\* the agents a router is built with: a list of some of these, in this order
AllAgents ==
    <<Agent("code_agent", "code"), Agent("browser_agent", "web"),
      Agent("casual_agent", "talk"), Agent("planner_agent", "planification")>>
Roles == { AllAgents[i].role : i \in DOMAIN AllAgents }
Registries ==
    { SelectSeq(AllAgents, LAMBDA a : a.role \in S) :
        S \in (SUBSET Roles) \ {{}} }

\* the texts routed: a greeting, a blank text, a request of two steps, and
\* the same request with an exclusion term
RouterTexts ==
    { <<{"hello"}>>, <<{}>>, <<{"Search", "and then", "write"}>>,
      <<{"only", "Search", "and then", "write"}>> }

\* len(text) of the translated first sentence, around the limit of
\* router_vote
ShortLimit == 8
TranslatedLengths == {ShortLimit, ShortLimit + 1}

\* A classifier call raises or returns a list of predictions; a confidence
\* is a number of tenths.
MaxPredictions == 2
ConfidenceThreshold == 5
Prediction(label, confidence) == [label |-> label, confidence |-> confidence]
Outcome(raised, predictions) == [raised |-> raised, predictions |-> predictions]
Unused == Outcome(FALSE, << >>)

ComplexityLabels == {"HIGH", "LOW", "code"}
ComplexityConfidences ==
    {ConfidenceThreshold - 1, ConfidenceThreshold, ConfidenceThreshold + 1}
ComplexityPredictions ==
    { Prediction(l, c) : l \in ComplexityLabels, c \in ComplexityConfidences }
ComplexityOutcomes ==
    {Outcome(TRUE, << >>)} \cup
    { Outcome(FALSE, ps) :
        ps \in UNION { [1..n -> ComplexityPredictions] : n \in 0..MaxPredictions } }

\* the outcomes of the complexity classifier inside a select_agent call
RoutedComplexityOutcomes ==
    { o \in ComplexityOutcomes : Len(o.predictions) <= 1 }

\* the two capability classifiers: the top label and score of the zero-shot
\* pipeline over the given labels, and the predictions of the few-shot
\* classifier
VoteConfidences == {0, ConfidenceThreshold - 1, ConfidenceThreshold + 1}
BartOutcomes(labels) ==
    {Outcome(TRUE, << >>)} \cup
    { Outcome(FALSE, <<Prediction(l, c)>>) : l \in labels, c \in VoteConfidences }
LlmLabels == {"talk", "mcp", "HIGH"}
LlmOutcomes ==
    {Outcome(TRUE, << >>), Outcome(FALSE, << >>)} \cup
    { Outcome(FALSE, <<Prediction(l, c)>>) : l \in LlmLabels, c \in VoteConfidences }

\* sorted(predictions, key=lambda x: x[1], reverse=True)[0]: the sort is
\* stable, so the first of the predictions of highest confidence
highest(predictions) ==
    predictions[CHOOSE k \in 1..Len(predictions) :
        /\ \A j \in 1..Len(predictions) :
               predictions[k].confidence >= predictions[j].confidence
        /\ \A j \in 1..(k - 1) :
               predictions[j].confidence < predictions[k].confidence]

\* a low confidence answered with the cheaper tier
estimate_complexity_low(predicted) ==
    IF predicted.raised THEN "LOW"
    ELSE IF predicted.predictions = << >> THEN "LOW"
    ELSE LET top == highest(predicted.predictions)
         IN  IF top.confidence < ConfidenceThreshold THEN "LOW"
             ELSE IF top.label = "HIGH" THEN "HIGH"
             ELSE "LOW"

estimate_complexity(predicted) ==
    IF predicted.raised THEN "LOW"
    ELSE IF predicted.predictions = << >> THEN "LOW"
    ELSE LET top == highest(predicted.predictions)
         IN  IF top.confidence < ConfidenceThreshold THEN "HIGH"
             ELSE IF top.label = "HIGH" THEN "HIGH"
             ELSE IF top.label = "LOW" THEN "LOW"
             ELSE "LOW"

\* llm_router: the top prediction that is no complexity label; [0] of an
\* empty list raises
llm_router(predicted) ==
    LET predictions ==
            SelectSeq(predicted.predictions,
                      LAMBDA pred : pred.label \notin {"HIGH", "LOW"})
    IN  IF predicted.raised THEN Raise("ClassifierError")
        ELSE IF predictions = << >> THEN Raise("IndexError")
        ELSE Return(highest(predictions))

\* router_vote for a text of n characters: conf / (conf_bart + conf_llm) of
\* the two classifiers compared, the fractions compared by their
\* numerators over the common denominator
router_vote(n, bart, llm) ==
    IF n <= ShortLimit THEN Return("talk")
    ELSE IF bart.raised THEN Raise("ClassifierError")
    ELSE LET result_llm_router == llm_router(llm)
             confidence_bart == bart.predictions[1].confidence
             confidence_llm_router == result_llm_router.value.confidence
             total == confidence_bart + confidence_llm_router
         IN  IF result_llm_router.exception # None
             THEN Raise(result_llm_router.exception)
             ELSE IF total = 0 THEN Raise("ZeroDivisionError")
             ELSE IF confidence_bart * total > confidence_llm_router * total
                  THEN Return(bart.predictions[1].label)
                  ELSE Return(result_llm_router.value.label)

\* find_planner_agent: the first agent of type planner_agent, else None
find_planner_agent(agts) ==
    LET found == {i \in 1..Len(agts) : agts[i].type = "planner_agent"}
    IN  IF found = {} THEN NoAgent
        ELSE agts[CHOOSE i \in found : \A j \in found : i <= j]

\* lines 489-497: the first agent whose role is the label voted for, else
\* None
agent_of_role(agts, best_agent) ==
    LET found == {i \in 1..Len(agts) : best_agent = agts[i].role}
    IN  IF found = {} THEN NoAgent
        ELSE agts[CHOOSE i \in found : \A j \in found : i <= j]

\* len(self.agents) == 1
single_agent_never(agts) == FALSE
single_agent(agts) == Len(agts) = 1

\* what a select_agent call leaves: its inputs, its result, the
\* collaborators it called
routed(agts, text, n, complexity, bart, llm, result, calls) ==
    /\ routing' = [op |-> "select_agent", agents |-> agts, text |-> text,
                   translated |-> n, complexity |-> complexity,
                   bart |-> bart, llm |-> llm]
    /\ selected' = result
    /\ invoked' = calls
    /\ UNCHANGED <<runVars, collabVars, lockVars, lifeVars,
                 overlapVars>>

select_agent(agts, text) ==
    /\ routing.op = "none"
    /\ IF single_agent(agts)
       THEN routed(agts, text, 0, Unused, Unused, Unused, Return(agts[1]), {})
       ELSE IF detect_collaborative_task(text)
       THEN routed(agts, text, 0, Unused, Unused, Unused,
                   Return(CollaborativeTaskAgent), {"detector"})
       ELSE \E n \in TranslatedLengths, cx \in RoutedComplexityOutcomes :
              IF estimate_complexity(cx) = "HIGH"
              THEN routed(agts, text, n, cx, Unused, Unused,
                          Return(find_planner_agent(agts)),
                          {"detector", "language", "complexity"})
              ELSE IF n <= ShortLimit
              THEN routed(agts, text, n, cx, Unused, Unused,
                          Return(agent_of_role(agts, "talk")),
                          {"detector", "language", "complexity"})
              ELSE \E bart \in BartOutcomes({agts[i].role : i \in 1..Len(agts)}),
                      llm \in LlmOutcomes :
                     LET best_agent == router_vote(n, bart, llm)
                     IN  routed(agts, text, n, cx, bart,
                                IF bart.raised THEN Unused ELSE llm,
                                IF best_agent.exception # None
                                THEN Raise(best_agent.exception)
                                ELSE Return(agent_of_role(agts, best_agent.value)),
                                {"detector", "language", "complexity", "bart"}
                                \cup IF bart.raised THEN {} ELSE {"llm_router"})

\* estimate_complexity called on its own
call_estimate_complexity(cx) ==
    /\ routing.op = "none"
    /\ routing' = [op |-> "estimate_complexity", complexity |-> cx]
    /\ selected' = Return(estimate_complexity(cx))
    /\ invoked' = {"complexity"}
    /\ UNCHANGED <<runVars, collabVars, lockVars, lifeVars,
                 overlapVars>>

RouterNext ==
    \/ \E agts \in Registries, text \in RouterTexts : select_agent(agts, text)
    \/ \E cx \in ComplexityOutcomes : call_estimate_complexity(cx)

RouterSpec == Init /\ [][RouterNext]_vars

(* ================== the detector and the decomposer ==================== *)
\* the texts given to the decomposer: clauses of keywords of the three
\* lists and of a word of none, some of them blank
DecomposerPhrases == {"hello", "Search", "write", "save"}
DecomposerTexts ==
    UNION { [1..n -> SUBSET DecomposerPhrases] : n \in 1..MaxTasks }

\* the texts given to the detector: those of the decomposer, and the one
\* clause texts that may also hold a connective that is not a strong one
DetectorPhrases == Phrases \cup {"also"}
DetectorTexts == DecomposerTexts \cup { <<c>> : c \in SUBSET DetectorPhrases }

\* detect_collaborative_task called on its own
call_detect_collaborative_task(text) ==
    /\ routing.op = "none"
    /\ routing' = [op |-> "detect_collaborative_task", text |-> text]
    /\ selected' = Return(detect_collaborative_task(text))
    /\ invoked' = {"detector"}
    /\ UNCHANGED <<runVars, collabVars, lockVars, lifeVars,
                 overlapVars>>

\* decompose_collaborative_task called on its own
call_decompose_collaborative_task(text) ==
    /\ routing.op = "none"
    /\ routing' = [op |-> "decompose_collaborative_task", text |-> text]
    /\ selected' = Return(decompose_collaborative_task(text))
    /\ invoked' = {"decomposer"}
    /\ UNCHANGED <<runVars, collabVars, lockVars, lifeVars,
                 overlapVars>>

TextNext ==
    \/ /\ routing.op = "none"
       /\ \E text \in DetectorTexts : call_detect_collaborative_task(text)
    \/ /\ routing.op = "none"
       /\ \E text \in DecomposerTexts : call_decompose_collaborative_task(text)

TextSpec == Init /\ [][TextNext]_vars

(* ==================== the dependency sort on its own =================== *)
\* the ids a dependency list may name: those of the list, and one that no
\* task of the list has
UnknownId == TaskId(0)
SortIds(n) == {TaskId(j) : j \in 1..n} \cup {UnknownId}

\* dependency lists of at most two ids, the task's own id and a repeated id
\* among them
SortDependencies(n) ==
    {<< >>} \cup { <<a>> : a \in SortIds(n) }
            \cup { <<a, b>> : a \in SortIds(n), b \in SortIds(n) }

\* task lists with pairwise distinct ids and any dependency graph
SortLists ==
    UNION { { [i \in 1..n |-> AgentTask(TaskId(i), "code", dp[i], 0)] :
                dp \in [1..n -> SortDependencies(n)] } : n \in 1..MaxTasks }

\* _sort_tasks_by_dependencies called on its own
call_sort_tasks_by_dependencies(ts) ==
    /\ routing.op = "none"
    /\ routing' = [op |-> "_sort_tasks_by_dependencies", tasks |-> ts]
    /\ selected' = Return(sort_tasks_by_dependencies(ts))
    /\ invoked' = {"sort"}
    /\ UNCHANGED <<runVars, collabVars, lockVars, lifeVars,
                 overlapVars>>

SortNext ==
    /\ routing.op = "none"
    /\ \E ts \in SortLists : call_sort_tasks_by_dependencies(ts)

SortSpec == Init /\ [][SortNext]_vars

(* ================== runs of one scheduler, one after another =========== *)
(* A caller that keeps the scheduler and its task objects: when a run has   *)
(* returned it calls the scheduler again, in any list mode, with the list  *)
(* it passed before.  The objects carry the retry_count the earlier runs   *)
(* left, and self.shared_context is the object made in __init__.           *)
MaxRuns == 2

\* the lists of the caller: one task with budget left, and two tasks of
\* which the first names the second as a dependency and the second has used
\* up its budget
ReusedLists ==
    { <<AgentTask(TaskId(1), "code", << >>, rc)>> :
          rc \in 0..(DefaultMaxRetries - 1) }
    \cup { <<AgentTask(TaskId(1), "code", <<TaskId(2)>>, rc),
            AgentTask(TaskId(2), "code", << >>, DefaultMaxRetries)>> :
              rc \in 0..(DefaultMaxRetries - 1) }

\* the caller's list with fresh task objects
FreshObjects == submitted
\* the caller's list: the objects of the last run, in the order submitted
SameObjects ==
    [i \in 1..Len(submitted) |-> task_dict(tasks, submitted[i].task_id)]

\* the lists a run may be given
RunLists == IF completed = 0 THEN ReusedLists ELSE {SameObjects}

\* the blackboard of a brand new scheduler
shared_context_new(data) == EmptyContext
\* self.shared_context of the scheduler after a run: the object of __init__
shared_context_kept(data) == data

\* a run has returned to its caller; the locals of the call are gone, the
\* scheduler and the task objects stay
run_returned ==
    /\ pc = "returned"
    /\ completed + 1 < MaxRuns
    /\ completed' = completed + 1
    /\ shared_context' = shared_context_kept(shared_context)
    /\ earlier' = shared_context
    /\ pc' = "idle"
    /\ mode' = "idle"
    /\ cur' = 0
    /\ attempt' = 0
    /\ context_data' = EmptyContext
    /\ semaphore' = 0
    /\ returned' = None
    /\ results' = << >>
    /\ executed' = << >>
    /\ tpc' = [i \in 1..Len(tasks) |-> "done"]
    /\ task_result' = [i \in 1..Len(tasks) |-> NoResult]
    /\ prompts' = [i \in 1..Len(tasks) |-> << >>]
    /\ outcome' = [i \in 1..Len(tasks) |-> "none"]
    /\ UNCHANGED <<max_parallel_tasks, get_success, submitted, tasks>>
    /\ UNCHANGED <<routerVars, collabVars, lockVars, overlapVars>>

\* the duration of the worker calls of these runs
RunDurations == {1}

RunsNext ==
    \/ /\ pc = "idle"
       /\ \E ts \in RunLists : execute_sequential(ts)
       /\ UNCHANGED collabVars
    \/ /\ pc = "idle"
       /\ \E ts \in RunLists : execute_pipeline(ts)
       /\ UNCHANGED collabVars
    \/ /\ pc = "idle"
       /\ \E ts \in RunLists : execute_parallel(ts)
       /\ UNCHANGED collabVars
    \/ run_returned
    \/ sequential_next
    \/ sequential_result
    \/ sequential_retry
    \/ sequential_retry_result
    \/ sequential_return
    \/ \E i \in 1..Len(tasks) : execute_with_semaphore(i)
    \/ parallel_return
    \/ \E i \in 1..Len(tasks), b \in BOOLEAN : process_set_success(i, b)
    \/ \E i \in 1..Len(tasks), d \in RunDurations : process_return(i, d)
    \/ \E i \in 1..Len(tasks), d \in RunDurations : process_raise(i, d)

RunsSpec == Init /\ [][RunsNext]_vars

(* ============ execute_parallel with the blackboard lock ================ *)
(* The parallel run with the two blackboard writes of execute_task taken   *)
(* apart: each 'await self.shared_context.set' waits for the lock, writes  *)
(* and gives the lock back, while the coroutine holds its slot of the      *)
(* semaphore.  The coroutines of the run are scheduled fairly by the event *)
(* loop, and the worker calls are assumed to end.                          *)

\* lines 125-137: agent.process returns after d seconds; the TaskResult is
\* built with the worker's flag
worker_returned(i, d) ==
    /\ tpc[i] = "flagged"
    /\ tpc' = [tpc EXCEPT ![i] = "set_result"]
    /\ task_result' = [task_result EXCEPT ![i] =
           TaskResult(tasks[i], get_success[tasks[i].agent_type], Answer(i),
                      d, None)]
    /\ UNCHANGED <<routerVars, collabVars, lockVars, lifeVars, overlapVars>>
    /\ UNCHANGED <<max_parallel_tasks, shared_context, get_success, schedVars,
                   tasks, semaphore, prompts, outcome, executed>>

\* SharedContext.set, 'async with self.lock': the coroutine takes the lock
set_acquire(i) ==
    /\ tpc[i] \in {"set_result", "set_success"}
    /\ lock = Unlocked
    /\ lock' = i
    /\ tpc' = [tpc EXCEPT ![i] = IF @ = "set_result" THEN "result_locked"
                                 ELSE "success_locked"]
    /\ UNCHANGED <<routerVars, collabVars, client, serial, lifeVars,
                   overlapVars>>
    /\ UNCHANGED <<max_parallel_tasks, shared_context, get_success, schedVars,
                   tasks, semaphore, task_result, prompts, outcome, executed>>

\* lines 140-146: the body of set and the release of the lock; after the
\* second write execute_task returns and the slot is given back
set_release(i) ==
    /\ tpc[i] \in {"result_locked", "success_locked"}
    /\ lock = i
    /\ lock' = Unlocked
    /\ IF tpc[i] = "result_locked"
       THEN /\ shared_context' = set(shared_context,
                    ResultKey(tasks[i].task_id), task_result[i].result)
            /\ tpc' = [tpc EXCEPT ![i] = "set_success"]
            /\ UNCHANGED semaphore
       ELSE /\ shared_context' = set(shared_context,
                    SuccessKey(tasks[i].task_id),
                    get_success[tasks[i].agent_type])
            /\ tpc' = [tpc EXCEPT ![i] = "done"]
            /\ semaphore' = release
    /\ UNCHANGED <<routerVars, collabVars, client, serial, lifeVars,
                   overlapVars>>
    /\ UNCHANGED <<max_parallel_tasks, get_success, schedVars, tasks,
                   task_result, prompts, outcome, executed>>

\* the steps of the worker call of the task at position i
Worker(i) ==
    /\ i \in 1..Len(tasks)
    /\ \/ \E b \in BOOLEAN : process_set_success(i, b)
       \/ \E d \in RunDurations : worker_returned(i, d)
       \/ \E d \in RunDurations : process_raise(i, d)

\* the steps of the coroutine of the task at position i outside the worker
Coroutine(i) ==
    /\ i \in 1..Len(tasks)
    /\ \/ execute_with_semaphore(i)
       \/ set_acquire(i)
       \/ set_release(i)

\* the lists of these runs: tasks of one worker, and tasks whose tag has no
\* worker, which fail before they call one
LiveLists ==
    UNION { { [i \in 1..n |-> AgentTask(TaskId(i), ty[i], << >>, 0)] :
                ty \in [1..n -> {"code", "files"}] } : n \in 0..MaxTasks }

LiveNext ==
    \/ /\ pc = "idle"
       /\ \E ts \in LiveLists : execute_parallel(ts)
       /\ UNCHANGED collabVars
    \/ \E i \in 1..MaxTasks : Coroutine(i)
    \/ \E i \in 1..MaxTasks : Worker(i)
    \/ parallel_return

\* every worker call ends, and the event loop runs every coroutine that can
\* go on
LiveFairness ==
    /\ \A i \in 1..MaxTasks : WF_vars(Worker(i))
    /\ \A i \in 1..MaxTasks : WF_vars(Coroutine(i))
    /\ WF_vars(parallel_return)

LiveSpec == Init /\ [][LiveNext]_vars /\ LiveFairness

(* ============ calls of execute_parallel that overlap =================== *)
(* Coroutines of a caller that call execute_parallel on one scheduler      *)
(* while another call is in progress.  Each call makes its own             *)
(* asyncio.Semaphore(self.max_parallel_tasks), line 188.                   *)
MaxCalls == 2

\* a call of execute_parallel with n tasks
overlap_execute_parallel(n) ==
    /\ Len(batch) < MaxCalls
    /\ batch' = Append(batch, [semaphore |-> max_parallel_tasks,
                               tpc |-> [i \in 1..n |-> "gate"],
                               pc |-> "gather"])
    /\ UNCHANGED <<runVars, routerVars, collabVars, lockVars, lifeVars>>

\* async with semaphore of call c: a slot is taken, the worker is called
overlap_acquire(c, i) ==
    /\ batch[c].tpc[i] = "gate"
    /\ batch[c].semaphore > 0
    /\ batch' = [batch EXCEPT ![c].semaphore = @ - 1,
                              ![c].tpc[i] = "running"]
    /\ UNCHANGED <<runVars, routerVars, collabVars, lockVars, lifeVars>>

\* execute_task returns or fails: the slot is given back
overlap_release(c, i) ==
    /\ batch[c].tpc[i] = "running"
    /\ batch' = [batch EXCEPT ![c].semaphore = @ + 1,
                              ![c].tpc[i] = "done"]
    /\ UNCHANGED <<runVars, routerVars, collabVars, lockVars, lifeVars>>

\* gather of call c returns
overlap_return(c) ==
    /\ batch[c].pc = "gather"
    /\ \A i \in DOMAIN batch[c].tpc : batch[c].tpc[i] = "done"
    /\ batch' = [batch EXCEPT ![c].pc = "returned"]
    /\ UNCHANGED <<runVars, routerVars, collabVars, lockVars, lifeVars>>

OverlapNext ==
    \/ \E n \in 1..MaxTasks : overlap_execute_parallel(n)
    \/ \E c \in DOMAIN batch : \E i \in DOMAIN batch[c].tpc :
           overlap_acquire(c, i)
    \/ \E c \in DOMAIN batch : \E i \in DOMAIN batch[c].tpc :
           overlap_release(c, i)
    \/ \E c \in DOMAIN batch : overlap_return(c)

OverlapSpec == Init /\ [][OverlapNext]_vars

(* ========================= properties of the runs ====================== *)
Positions == 1..Len(tasks)

\* a worker call that has started and has not yet returned or raised
Active(i) == tpc[i] \in {"running", "flagged"}
NumActive == Cardinality({i \in Positions : Active(i)})

\* number of entries of the result list rs that answer task_id
Entries(rs, task_id) ==
    Cardinality({k \in 1..Len(rs) : rs[k].task_id = task_id})

ListModes == {"sequential", "parallel", "pipeline"}

\* C1: during a parallel or competitive execution the number of worker calls
\* that have started and not yet returned or raised never exceeds
\* max_parallel_tasks.
C1_BoundedParallelism ==
    InParallel => NumActive <= max_parallel_tasks

\* the gate is full and a task of the batch waits at it
C1_Witness ==
    /\ InParallel
    /\ NumActive = max_parallel_tasks
    /\ \E i \in Positions : tpc[i] = "gate"

\* C2: the list returned by execute_sequential, execute_parallel and
\* execute_pipeline holds exactly one TaskResult per submitted task, and at
\* no moment of the run does the result list hold two entries of one task.
C2_OneResultPerTask ==
    mode \in ListModes =>
        /\ \A i \in 1..Len(submitted) :
               Entries(results, submitted[i].task_id) <= 1
        /\ pc = "returned" =>
               /\ Len(returned) = Len(submitted)
               /\ \A i \in 1..Len(submitted) :
                      Entries(returned, submitted[i].task_id) = 1

\* a returned list in which one task was retried and one task failed
C2_Witness ==
    /\ mode \in ListModes /\ pc = "returned"
    /\ Len(submitted) >= 2
    /\ \E i \in Positions : Calls(i) = 2
    /\ \E k \in 1..Len(returned) : ~returned[k].success

\* the tasks whose last worker call raised
Raised == {i \in Positions : outcome[i] = "raise"}

\* C3: when exactly one task's worker raises, the run returns a list as long
\* as the input, every task was run, the raising task's entry is failed and
\* every other entry carries the outcome of its own worker call (so that the
\* raising task's entry is the only failed one when the other workers
\* succeeded).
C3_Isolation ==
    ( /\ mode \in ListModes /\ pc = "returned"
      /\ Cardinality(Raised) = 1
      /\ \A i \in Positions : outcome[i] \in {"ok", "fail", "raise"} )
    =>
    /\ Len(returned) = Len(submitted)
    /\ \A i \in Positions :
           /\ Calls(i) >= 1
           /\ returned[i].task_id = tasks[i].task_id
           /\ returned[i].success = (outcome[i] = "ok")
    /\ (\A i \in Positions \ Raised : outcome[i] = "ok") =>
           Cardinality({k \in 1..Len(returned) : ~returned[k].success}) = 1

\* C4: in sequential and pipeline mode the snapshot a task's prompt is built
\* from holds the keys task_<id>_result and task_<id>_success of the task
\* executed just before it, whatever that task's outcome was.
C4_PredecessorWritten ==
    mode \in {"sequential", "pipeline"} =>
        \A i \in Positions :
            (i > 1 /\ prompts[i] # << >>) =>
                /\ ResultKey(tasks[i - 1].task_id) \in DOMAIN prompts[i][1]
                /\ SuccessKey(tasks[i - 1].task_id) \in DOMAIN prompts[i][1]

\* the keys of the tasks of the running batch
BatchKeys ==
    UNION { {ResultKey(tasks[j].task_id), SuccessKey(tasks[j].task_id)} :
              j \in Positions }

\* C5: in a parallel execution every prompt is built from the snapshot taken
\* before the batch started, which holds no key written by a task of the
\* batch, however the tasks' completions interleave.
C5_SnapshotIsolation ==
    InParallel =>
        \A i \in Positions : \A k \in 1..Len(prompts[i]) :
            /\ prompts[i][k] = context_data
            /\ DOMAIN prompts[i][k] \cap BatchKeys = {}

\* with one slot, a task's prompt is built after a sibling has written its
\* result to the blackboard
C5_Witness ==
    /\ InParallel
    /\ max_parallel_tasks = 1
    /\ \E i, j \in Positions :
           /\ i # j
           /\ Active(i)
           /\ ResultKey(tasks[j].task_id) \in DOMAIN shared_context

\* the task at position a of ts names the task at position b as a dependency
DependsOn(ts, a, b) ==
    \E k \in 1..Len(ts[a].dependencies) : ts[a].dependencies[k] = ts[b].task_id

\* the positions reached from the positions S along 1..m dependency edges
RECURSIVE Reach(_, _, _)
Reach(ts, S, m) ==
    IF m = 0 THEN {}
    ELSE LET N == {b \in 1..Len(ts) : \E a \in S : DependsOn(ts, a, b)}
         IN  N \cup Reach(ts, N, m - 1)

Acyclic(ts) == \A a \in 1..Len(ts) : a \notin Reach(ts, {a}, Len(ts))

\* C6: on a list whose dependency graph is acyclic, pipeline mode executes
\* every task after every task of the list it names as a dependency.
C6_TopologicalOrder ==
    (mode = "pipeline" /\ Acyclic(submitted)) =>
        \A k \in 1..Len(executed) : \A b \in Positions :
            DependsOn(tasks, executed[k], b) =>
                \E h \in 1..(k - 1) : executed[h] = b

\* a finished pipeline run that had to reorder the submitted list
C6_Witness ==
    /\ mode = "pipeline" /\ pc = "returned"
    /\ Acyclic(submitted)
    /\ \E i \in Positions : tasks[i].task_id # submitted[i].task_id
    /\ \E a, b \in Positions : DependsOn(tasks, a, b)

\* the worker of the task at position i has been called
Invoked(i) == outcome[i] # "none"

\* C7 (as stated): in a pipeline run a task's worker is invoked only when
\* every task it names as a dependency has completed with success = true.
C7_DependenciesSucceeded ==
    (mode = "pipeline" /\ Acyclic(submitted)) =>
        \A i, b \in Positions :
            (Invoked(i) /\ DependsOn(tasks, i, b)) =>
                /\ b <= Len(results)
                /\ results[b].success

\* C7 (amended): in a pipeline run over an acyclic list a task's worker is
\* invoked only after every task of the list it names as a dependency has
\* completed, successfully or not; a failed dependency stops no task: the
\* run ends only when every task has been executed.
C7_DependenciesCompleted ==
    (mode = "pipeline" /\ Acyclic(submitted)) =>
        /\ \A i, b \in Positions :
               (Invoked(i) /\ DependsOn(tasks, i, b)) =>
                   /\ b < i
                   /\ tpc[b] = "done"
                   /\ b <= Len(results)
        /\ pc = "returned" => \A i \in Positions : Calls(i) >= 1

\* the worker of a task is invoked although its dependency has failed
C7_Witness ==
    /\ mode = "pipeline" /\ Acyclic(submitted)
    /\ \E i, b \in Positions :
           /\ Invoked(i) /\ DependsOn(tasks, i, b)
           /\ b <= Len(results) /\ ~results[b].success

\* C8: a task whose worker call ran longer than the task's timeout has a
\* failed TaskResult whose error message indicates the timeout.
C8_TimeoutEnforced ==
    \A i \in Positions :
        (tpc[i] = "done" /\ task_result[i].execution_time > tasks[i].timeout) =>
            /\ ~task_result[i].success
            /\ task_result[i].error_message = "timeout"

\* the loop of execute_sequential is done with the task at position i
Completed(i) == i < cur \/ (i = cur /\ pc \in {"loop", "returned"})

\* C9: in sequential mode a task whose first attempt failed with
\* retry_count < max_retries is executed exactly once more, at once, its
\* retry_count grows by one and the retry's result replaces the first; every
\* other task is executed exactly once and keeps its retry_count; the tasks
\* are executed in list order.
C9_RetryOnce ==
    mode = "sequential" =>
        /\ \A k \in 1..(Len(executed) - 1) :
               /\ executed[k] <= executed[k + 1]
               /\ executed[k + 1] <= executed[k] + 1
        /\ \A i \in Positions : Calls(i) <= 2
        /\ (pc = "await" /\ attempt = 2) =>
               /\ ~results[cur].success
               /\ submitted[cur].retry_count < submitted[cur].max_retries
               /\ tasks[cur].retry_count = submitted[cur].retry_count + 1
               /\ Calls(cur) = 2
        /\ \A i \in Positions : Completed(i) =>
               /\ results[i] = task_result[i]
               /\ \/ /\ Calls(i) = 1
                     /\ tasks[i].retry_count = submitted[i].retry_count
                     /\ \/ results[i].success
                        \/ submitted[i].retry_count >= submitted[i].max_retries
                  \/ /\ Calls(i) = 2
                     /\ tasks[i].retry_count = submitted[i].retry_count + 1

\* a finished sequential run with one retried task and one failed task that
\* had no budget left
C9_Witness ==
    /\ mode = "sequential" /\ pc = "returned"
    /\ \E i \in Positions : Calls(i) = 2
    /\ \E j \in Positions : Calls(j) = 1 /\ ~results[j].success

\* C10: execute_competitive over at least two candidates selects only after
\* every candidate has completed or failed, and returns a successful result
\* of lowest execution_time, or the first result when none succeeded.
C10_CompetitiveSelection ==
    (mode = "competitive" /\ Len(tasks) >= 2) =>
        /\ pc \in {"select", "returned"} =>
               \A i \in Positions : tpc[i] = "done"
        /\ pc = "returned" =>
               IF \E k \in 1..Len(results) : results[k].success
               THEN /\ \E k \in 1..Len(results) : returned = results[k]
                    /\ returned.success
                    /\ \A k \in 1..Len(results) : results[k].success =>
                           returned.execution_time <= results[k].execution_time
               ELSE returned = results[1]

\* two candidates succeeded and the second, the faster one, was returned
C10_Witness ==
    /\ mode = "competitive" /\ pc = "returned"
    /\ Len(results) >= 2
    /\ results[1].success /\ results[2].success
    /\ results[2].execution_time < results[1].execution_time
    /\ returned = results[2]

\* C11 (as stated): execute_competitive returns a TaskResult, never an absent
\* value, whatever the candidate tags are (none at all, all unregistered, all
\* failing).
C11_AlwaysResult ==
    (mode = "competitive" /\ pc = "returned") =>
        /\ returned # None
        /\ \E k \in 1..Len(results) : returned = results[k]

\* the tags without worker among the tasks of the run
Unregistered == {i \in Positions : tasks[i].agent_type \notin agents}

\* C13 (as stated): a task whose tag has no registered worker yields a failed
\* result that is kept in the result list, no worker is invoked for it, and
\* the scheduler executes it once only: it is not retried, in any mode.
C13_UnknownCapability ==
    \A i \in Unregistered :
        /\ outcome[i] = "none"
        /\ prompts[i] = << >>
        /\ tpc[i] = "done" => ~task_result[i].success
        /\ (mode \in ListModes /\ pc = "returned") =>
               /\ Entries(returned, tasks[i].task_id) = 1
               /\ \A k \in 1..Len(returned) :
                      returned[k].task_id = tasks[i].task_id =>
                          ~returned[k].success
        /\ Calls(i) <= 1

\* C14 (as stated): every TaskResult the scheduler produced has an error
\* message exactly when its success flag is false.
C14_ErrorIffFailed ==
    \A i \in Positions :
        tpc[i] = "done" =>
            (task_result[i].error_message # None <=> ~task_result[i].success)

\* C12 (as stated): when competitive execution is asked for and there is
\* exactly one candidate tag, the work is run by the Sequential procedure on
\* a list that holds a single task.
C12_SingleCandidateSequential ==
    ( /\ request = "competitive" /\ router_pc # "idle"
      /\ Cardinality(agent_types(submitted)) = 1 )
    => (mode = "sequential" /\ Len(submitted) = 1)

\* C18 (as stated): when the decomposer yields no sub-task for a request
\* handed to execute_collaborative_task, the router falls back to a single
\* worker: the request does not end with an empty outcome.
C18_EmptyDecompositionFallsBack ==
    (router_pc = "returned" /\ mode = "idle") =>
        /\ reply # None
        /\ Len(executed) >= 1

\* the coroutines inside the lock
Holders == {c \in Coroutines : client[c].pc \in {"body", "release"}}

\* C15: the SharedContext operations exclude one another and lose no
\* update: at most one coroutine is inside an operation; whenever no
\* operation is under way every key holds the value of the last write that
\* was applied to it, so that every key written by a completed set or update
\* is in the map; and a get or get_all returns what the map held when it took
\* the lock, the value of the last set of the key included.
C15_MutualExclusion ==
    /\ Cardinality(Holders) <= 1
    /\ \A c \in Holders : lock = c
    /\ lock = Unlocked => shared_context = serial
    /\ \A c \in Coroutines :
           (client[c].pc = "release" /\ client[c].call.name = "set") =>
               /\ client[c].call.key \in DOMAIN shared_context
               /\ get(shared_context, client[c].call.key, None)
                      = client[c].call.value
    /\ \A c \in Coroutines :
           client[c].pc = "release" =>
               client[c].result = client[c].expect

\* an update has written one of its two keys while another coroutine waits
\* at the lock with a write to the other key
C15_Witness ==
    \E c, d \in Coroutines :
        /\ c # d
        /\ client[c].pc = "body" /\ client[c].call.name = "update"
        /\ Cardinality(DOMAIN client[c].call.updates) = 2
        /\ Cardinality(client[c].todo) = 1
        /\ client[d].pc = "acquire" /\ client[d].call.name = "set"
        /\ client[d].call.key \in client[c].todo
        /\ shared_context # serial

\* C16: with exactly one agent registered select_agent returns that agent
\* for every text, and calls neither the collaboration detector nor the
\* complexity classifier nor a capability classifier.
C16_SingleAgent ==
    (routing.op = "select_agent" /\ Len(routing.agents) = 1) =>
        /\ selected = Return(routing.agents[1])
        /\ invoked = {}

\* the single agent was returned for a text the detector flags
C16_Witness ==
    /\ routing.op = "select_agent"
    /\ Len(routing.agents) = 1
    /\ detect_collaborative_task(routing.text)
    /\ selected = Return(routing.agents[1])

\* the label the two capability classifiers of the call voted for
Voted == router_vote(routing.translated, routing.bart, routing.llm)

\* the vote of the call was taken and its label is the role of no agent
NoRoleMatches ==
    /\ routing.op = "select_agent"
    /\ "complexity" \in invoked
    /\ estimate_complexity(routing.complexity) = "LOW"
    /\ Voted.exception = None
    /\ \A i \in 1..Len(routing.agents) : routing.agents[i].role # Voted.value

\* C17 (as stated): when the label the classifiers chose is the role of no
\* registered agent, select_agent fails with a NoAgentSelected error: it
\* returns no agent and no other value.
C17_NoAgentSelected ==
    NoRoleMatches => selected = Raise("NoAgentSelected")

\* a classifier the call ran has raised or has returned no prediction
ClassifierFailed ==
    /\ routing.op = "select_agent"
    /\ \/ /\ "complexity" \in invoked
          /\ routing.complexity.raised \/ routing.complexity.predictions = << >>
       \/ /\ "bart" \in invoked
          /\ routing.bart.raised
       \/ /\ "llm_router" \in invoked
          /\ routing.llm.raised \/ routing.llm.predictions = << >>

\* C19 (as stated): when a classifier raises or returns no prediction
\* during routing, select_agent recovers and raises nothing.
C19_ClassifierFailureRecovered ==
    ClassifierFailed => selected.exception = None

\* the predictions of highest confidence of an estimate_complexity call
Highest ==
    LET ps == routing.complexity.predictions
    IN  { k \in 1..Len(ps) :
            \A j \in 1..Len(ps) : ps[k].confidence >= ps[j].confidence }

\* C20: estimate_complexity returns HIGH when the highest confidence is
\* below 0.5, whatever the label; otherwise the label of the prediction of
\* highest confidence (the first of them in the list) when that label is
\* HIGH or LOW; and LOW when the classifier raises.
C20_ComplexityRule ==
    routing.op = "estimate_complexity" =>
        LET ps == routing.complexity.predictions
            first == CHOOSE k \in Highest : \A j \in Highest : k <= j
        IN  /\ routing.complexity.raised => selected = Return("LOW")
            /\ (~routing.complexity.raised /\ ps # << >>) =>
                   /\ ps[first].confidence < ConfidenceThreshold =>
                          selected = Return("HIGH")
                   /\ ( /\ ps[first].confidence >= ConfidenceThreshold
                        /\ ps[first].label \in {"HIGH", "LOW"} ) =>
                          selected = Return(ps[first].label)

\* the most confident prediction says LOW with a confidence below 0.5, and
\* HIGH was returned
C20_Witness ==
    /\ routing.op = "estimate_complexity"
    /\ Len(routing.complexity.predictions) = MaxPredictions
    /\ \E k \in Highest :
           /\ routing.complexity.predictions[k].label = "LOW"
           /\ routing.complexity.predictions[k].confidence < ConfidenceThreshold
    /\ selected = Return("HIGH")

\* the phrases of the text of the call, in lower case
PhrasesOf(text) == { lower(p) : p \in UNION { text[i] : i \in 1..Len(text) } }

\* the phrases of the model that hold an exclusion term, a connective, a
\* strong connective, and the action verb each of the others is
HasExclusionTerm(text) == "only" \in PhrasesOf(text)
HasConnective(text) == PhrasesOf(text) \cap {"and then", "also"} # {}
HasStrongConnective(text) == "and then" \in PhrasesOf(text)
ActionVerbs(text) == PhrasesOf(text) \cap {"search", "write", "save"}

NonBlank(text) == {i \in 1..Len(text) : text[i] # {}}

\* the tag of a clause by the phrases in it
TagOf(clause) ==
    LET ps == { lower(p) : p \in clause }
    IN  IF "write" \in ps THEN "code"
        ELSE IF "search" \in ps THEN "web"
        ELSE IF "save" \in ps THEN "files"
        ELSE "talk"

\* C22: decompose_collaborative_task yields one task per clause that is not
\* blank, in clause order, with ids numbered from 0, no dependencies, and
\* the tag of the first keyword list that matches, in the order code, web,
\* files, else talk; it yields no task exactly when every clause is blank.
C22_Decomposition ==
    routing.op = "decompose_collaborative_task" =>
        LET text == routing.text
            ts == selected.value
        IN  /\ Len(ts) = Cardinality(NonBlank(text))
            /\ (ts = << >>) <=> (NonBlank(text) = {})
            /\ \A k \in 1..Len(ts) :
                   /\ ts[k].task_id = TaskId(k - 1)
                   /\ ts[k].dependencies = << >>
                   /\ \E i \in NonBlank(text) :
                          /\ Cardinality({j \in NonBlank(text) : j < i}) = k - 1
                          /\ ts[k].agent_type = TagOf(text[i])
            /\ \A k, h \in 1..Len(ts) :
                   ts[k].task_id = ts[h].task_id => k = h

\* a text with a blank clause before a clause that holds a code keyword
\* and a web keyword, which was tagged code
C22_Witness ==
    /\ routing.op = "decompose_collaborative_task"
    /\ \E i, j \in 1..Len(routing.text) :
           /\ i < j
           /\ routing.text[i] = {}
           /\ {"Search", "write"} \subseteq routing.text[j]
    /\ Len(selected.value) >= 1
    /\ selected.value[Len(selected.value)].agent_type = "code"

\* the schedule out omits a task of ts
Incomplete(ts, out) ==
    \E i \in 1..Len(ts) : \A k \in 1..Len(out) : out[k] # ts[i]

\* the schedule out places a task before a task it depends on
OrderViolating(out) ==
    \E k, h \in 1..Len(out) : k < h /\ DependsOn(out, k, h)

\* a dependency cycle that runs through two tasks or more
ProperCycle(ts) ==
    \E a, b \in 1..Len(ts) :
        /\ a # b
        /\ b \in Reach(ts, {a}, Len(ts))
        /\ a \in Reach(ts, {b}, Len(ts))

Sorted == routing.op = "_sort_tasks_by_dependencies"

\* C25 (as stated): on a list whose dependency graph has a cycle the sort
\* returns a schedule that omits a submitted task or places some task before
\* a task it depends on.
C25_CyclicIncompleteOrViolating ==
    (Sorted /\ ~Acyclic(routing.tasks) /\ selected.exception = None) =>
        \/ Incomplete(routing.tasks, selected.value)
        \/ OrderViolating(selected.value)

\* C25 (amended): on a list whose dependency graph has a cycle the sort
\* returns, raises nothing, and its schedule omits no submitted task; the
\* schedule places some task before a task it depends on exactly when a
\* cycle runs through two tasks or more, so that a list whose only cycles
\* are tasks that name themselves is scheduled in dependency order.
C25_CyclicComplete ==
    (Sorted /\ ~Acyclic(routing.tasks)) =>
        /\ selected.exception = None
        /\ ~Incomplete(routing.tasks, selected.value)
        /\ OrderViolating(selected.value) <=> ProperCycle(routing.tasks)

\* two tasks that name each other were scheduled, one of them before the
\* task it depends on
C25_Witness ==
    /\ Sorted
    /\ ProperCycle(routing.tasks)
    /\ Len(selected.value) = Len(routing.tasks)
    /\ OrderViolating(selected.value)

\* C26: on every list with pairwise distinct ids, whatever the dependency
\* graph, the sort returns a permutation of the list: every submitted task
\* once, and no other task.
C26_Permutation ==
    Sorted =>
        LET ts == routing.tasks
            out == selected.value
        IN  /\ Len(out) = Len(ts)
            /\ \A i \in 1..Len(ts) :
                   Cardinality({k \in 1..Len(out) : out[k] = ts[i]}) = 1
            /\ \A k \in 1..Len(out) : \E i \in 1..Len(ts) : out[k] = ts[i]

\* a sorted list in which a task names itself, a task names an id that is
\* not in the list, and the order of the list was changed
C26_Witness ==
    /\ Sorted
    /\ \E a \in 1..Len(routing.tasks) : DependsOn(routing.tasks, a, a)
    /\ \E a \in 1..Len(routing.tasks) :
           \E k \in 1..Len(routing.tasks[a].dependencies) :
               routing.tasks[a].dependencies[k] = UnknownId
    /\ selected.value # routing.tasks
    /\ Len(selected.value) = Len(routing.tasks)

\* C28: in parallel and competitive mode the success flag of every
\* TaskResult is the outcome of the task's own worker call, also when tasks
\* of the batch that run at the same time have the same worker.
C28_OwnSuccessFlag ==
    InParallel =>
        \A i \in Positions :
            (tpc[i] = "done" /\ outcome[i] \in {"ok", "fail"}) =>
                task_result[i].success = (outcome[i] = "ok")

\* a retry that is about to be prompted, or has been
Retried(i) == Len(prompts[i]) = 2

\* the keys written to the blackboard by the first call of the task at
\* position i
OwnKeys(i) == {ResultKey(tasks[i].task_id), SuccessKey(tasks[i].task_id)}

\* C30: in sequential mode the prompt of a retry is built from the snapshot
\* taken before the first attempt: it equals the context of the first
\* prompt and holds no entry written during or after the first attempt,
\* the task's own result and success keys included.
C30_RetrySnapshot ==
    mode = "sequential" =>
        \A i \in Positions : Retried(i) =>
            /\ prompts[i][2] = prompts[i][1]
            /\ DOMAIN prompts[i][2] \cap OwnKeys(i) = {}
            /\ \A j \in Positions : j >= i =>
                   DOMAIN prompts[i][2] \cap OwnKeys(j) = {}

\* a retry was prompted after the first attempt returned normally with a
\* failure flag and wrote its result and success keys to the blackboard
C30_Witness ==
    /\ mode = "sequential"
    /\ \E i \in Positions :
           /\ Retried(i)
           /\ OwnKeys(i) \subseteq DOMAIN shared_context
           /\ i >= 2
           /\ prompts[i][2] # EmptyContext

\* the keys of the tasks whose worker has been called in the current run
StartedKeys == UNION { OwnKeys(i) : i \in {j \in Positions : prompts[j] # << >>} }

\* C23: the blackboard of a scheduler lives across runs.  No step removes an
\* entry; every entry an earlier run left is still there, with the value
\* it had unless a task of the current run has written the key since; and
\* every snapshot a prompt of a later run is built from holds it.
C23_BlackboardPersists ==
    /\ []( /\ DOMAIN earlier \subseteq DOMAIN shared_context
           /\ \A key \in DOMAIN earlier :
                  \/ shared_context[key] = earlier[key]
                  \/ key \in StartedKeys
           /\ \A i \in Positions : \A k \in 1..Len(prompts[i]) :
                  \A key \in DOMAIN earlier :
                      /\ key \in DOMAIN prompts[i][k]
                      /\ \/ prompts[i][k][key] = earlier[key]
                         \/ key \in StartedKeys )
    /\ [][ \A key \in DOMAIN shared_context :
               key \in DOMAIN shared_context' ]_vars

\* a task of a later run was prompted with an entry that an earlier run
\* wrote, and the later run has returned
C23_Witness ==
    /\ completed >= 1
    /\ pc = "returned"
    /\ earlier # EmptyContext
    /\ \E i \in Positions :
           /\ prompts[i] # << >>
           /\ prompts[i][1] = earlier
    /\ shared_context # earlier

\* the retry_count the task at position i had when the run started
StartCount(i) == task_dict(submitted, tasks[i].task_id).retry_count

Retrying == mode \in {"sequential", "pipeline"}

\* C27: across runs that reuse the task objects a task's retry_count never
\* decreases and never exceeds max_retries; within one sequential or
\* pipeline run the worker of a task is called at most twice, and a failing
\* task that started the run with retry_count = max_retries is called once.
C27_RetryBudget ==
    /\ []( /\ \A i \in Positions :
                  tasks[i].retry_count <= tasks[i].max_retries
           /\ Retrying =>
                  \A i \in Positions :
                      /\ Calls(i) <= 2
                      /\ Len(prompts[i]) <= 2
                      /\ tasks[i].retry_count <= StartCount(i) + 1
           /\ (Retrying /\ pc = "returned") =>
                  \A i \in Positions :
                      ( /\ StartCount(i) = tasks[i].max_retries
                        /\ ~returned[i].success ) =>
                          /\ Calls(i) = 1
                          /\ Len(prompts[i]) = 1 )
    /\ [][ \A i \in 1..Len(tasks) : \A j \in 1..Len(tasks') :
               tasks[i].task_id = tasks'[j].task_id =>
                   tasks'[j].retry_count >= tasks[i].retry_count ]_vars

\* a task that was retried in an earlier run, which used up its budget,
\* failed in a later sequential run and was called once
C27_Witness ==
    /\ completed >= 1
    /\ mode = "sequential" /\ pc = "returned"
    /\ \E i \in Positions :
           /\ tasks[i].task_id = TaskId(1)
           /\ StartCount(i) = tasks[i].max_retries
           /\ ~returned[i].success
           /\ Len(prompts[i]) = 1

\* C24: when every worker call ends, a parallel execution of n tasks ends
\* with all n results, also with more tasks than slots: the tasks at the
\* gate are admitted, every admitted task gives its slot back whether it
\* succeeds or fails, and the run ends with every slot and the blackboard
\* lock free.
C24_ParallelCompletes ==
    /\ [](pc = "returned" =>
             /\ semaphore = max_parallel_tasks
             /\ lock = Unlocked)
    /\ (mode = "parallel" /\ pc = "gather") ~>
           (pc = "returned" /\ Len(returned) = Len(submitted))

\* a parallel run of more tasks than slots has returned all its results,
\* one of a worker that raised and one of a worker that succeeded
C24_Witness ==
    /\ mode = "parallel" /\ pc = "returned"
    /\ Len(submitted) > max_parallel_tasks
    /\ Len(returned) = Len(submitted)
    /\ \E i \in Positions : outcome[i] = "raise"
    /\ \E i \in Positions : outcome[i] = "ok"

\* the worker calls in flight in all the calls of execute_parallel
InFlight ==
    UNION { {<<c, i>> : i \in {j \in DOMAIN batch[c].tpc :
                                  batch[c].tpc[j] = "running"}} :
            c \in DOMAIN batch }

\* C29: the worker calls in flight on one scheduler, over all the calls of
\* execute_parallel that overlap, never exceed max_parallel_tasks.
C29_GateBoundsScheduler ==
    Cardinality(InFlight) <= max_parallel_tasks

====
